---- MODULE Spec2Model ----
(***************************************************************************)
(* The ECS engine of ECS-particles (class ECS and abstract class System).  *)
(*                                                                         *)
(* One engine instance is modelled as the record `ecs`, whose fields are   *)
(* the instance fields of class ECS.  The insertion-ordered                *)
(* Map<System, Set<Entity>> is a sequence of [system, entities] entries,   *)
(* the Map<Entity, Map<ComponentType, Component>> is a function whose      *)
(* domain is the set of registered entities, and entitiesToDestroy is a    *)
(* sequence.  Every public method is an operator from an engine record to  *)
(* an engine record, and an action applies it.  update() calls back into   *)
(* code of the systems, which may call every public method of the engine   *)
(* through the handle they are given, so one update() call is a run of     *)
(* steps: UpdateBegin, the calls of the running system, SystemReturnNext   *)
(* or SystemReturnLast (or SystemThrow).  update() is one of the methods a  *)
(* running system may call: the call starts a pass of its own, with its    *)
(* own iterator over this.systems, and the pass that was running waits in  *)
(* `stack` until the inner call returns or throws.                         *)
(*                                                                         *)
(* The program's steps are the same in both specifications; they differ in *)
(* the history they keep.  Spec keeps the history of the running update()  *)
(* (invoked, passQueued, passMutated, passReadded) and SpecCalls keeps    *)
(* the last call and its outcome (lastOp).  SpecIds adds the addEntity()   *)
(* calls of another engine instance, which draw from the same static       *)
(* counter, and SpecClock adds the passing of time.                        *)
(***************************************************************************)
EXTENDS Integers, Sequences, FiniteSets, TLC

\* Bounds of the model.
MaxEntityID == 2
MaxQueue == 2
MaxInvocations == 2
MaxClock == 1
MaxDepth == 2

\* ECS.registerComponent(): the component types handed out so far.
ComponentTypes == {0, 1}

\* new Component(data, type)
Component(data, type) == [data |-> data, type |-> type]

\* The components a caller may pass: two payloads of type 0, one of type 1.
Components == {Component(1, 0), Component(2, 0), Component(1, 1)}

\* One component of each type, where the payloads make no difference.
ComponentOfEachType == {Component(1, 0), Component(1, 1)}

\* Entity identifiers a caller may pass: those addEntity returns within the
\* bound, each of them unregistered before its creation and after its destruction.
EntityIds == 0 .. MaxEntityID - 1

\* The System objects of the run.
Systems == {"Any", "Both"}

\* System.requiredComponents of each of them.
requiredComponents(system) ==
  IF system = "Any" THEN {} ELSE {0, 1}

NoSystem == "none"
NoData == 0

VARIABLES
  ecs,           \* the engine instance: systems, entities, start, delta, entitiesToDestroy
  nextEntityID,  \* ECS.nextEntityID (static)
  clock,         \* Date.now()
  pc,            \* "idle", or "running" while update() iterates this.systems
  cur,           \* the system whose update is running
  pos,           \* entries of this.systems the iterator of update() has passed
  stack,         \* [cur, pos] of the update() calls that wait for an inner update()
  invoked,       \* the systems invoked so far by this update() call, in order
  passQueued,    \* registered entities a system passed to removeEntity in this update()
  passMutated,   \* entities a system called addComponent/removeComponent on in this update()
  passReadded,   \* a system this update() had invoked was removed and registered again
  passNested,    \* a system called update() in this update()
  lastOp,        \* the call that made the last step, with its outcome
  once,          \* the same engine, had no removeEntity(e) been repeated before a flush
  returned,      \* the identifiers addEntity() has returned so far, on any instance
  updatedAt      \* the clock at the start of the previous update(), or at construction

vars == <<ecs, nextEntityID, clock, pc, cur, pos, stack, invoked, passQueued,
          passMutated, passReadded, passNested, lastOp, once, returned, updatedAt>>

(***************************************************************************)
(* Helpers on the two kinds of Map.                                        *)
(***************************************************************************)
Range(seq) == {seq[i] : i \in 1 .. Len(seq)}

\* Map.set(key, value) on a function with a finite domain.
MapSet(map, key, value) ==
  [k \in DOMAIN map \cup {key} |-> IF k = key THEN value ELSE map[k]]

\* Map.delete(key)
MapDelete(map, key) == [k \in DOMAIN map \ {key} |-> map[k]]

\* new Map()
EmptyMap == [k \in {} |-> 0]

\* this.systems.keys(), in insertion order
SystemKeys(this) == [i \in 1 .. Len(this.systems) |-> this.systems[i].system]

IsRegistered(this, system) == system \in Range(SystemKeys(this))

(***************************************************************************)
(* The methods of class ECS.                                               *)
(***************************************************************************)

\* getComponents: throws when the entity is not a key of this.entities.
getComponentsThrows(this, entity) == entity \notin DOMAIN this.entities

getComponents(this, entity) == this.entities[entity]

\* The test of updateEntitySystems: the entity has every required component.
entityHasAllRequiredComponentsBySystem(this, entity, system) ==
  \A componentType \in requiredComponents(system) :
    componentType \in DOMAIN getComponents(this, entity)

\* updateEntitySystems: every registered system adds or deletes the entity.
updateEntitySystems(this, entity) ==
  [this EXCEPT !.systems =
    [i \in 1 .. Len(@) |->
      [@[i] EXCEPT !.entities =
        IF entityHasAllRequiredComponentsBySystem(this, entity, this.systems[i].system)
        THEN @ \cup {entity}
        ELSE @ \ {entity}]]]

\* A mutant of addEntity: the identifier is the size of the instance's registry.
addEntityCountsRegistry(this, entity) ==
  [this EXCEPT !.entities = MapSet(@, Cardinality(DOMAIN @), EmptyMap)]

\* A mutant of addEntity: the membership of the new entity is computed.
addEntityRecomputes(this, entity) ==
  updateEntitySystems([this EXCEPT !.entities = MapSet(@, entity, EmptyMap)], entity)

\* addEntity, with the identifier drawn from ECS.nextEntityID.
addEntity(this, entity) ==
  [this EXCEPT !.entities = MapSet(@, entity, EmptyMap)]

\* A mutant of removeEntity: the entity leaves the registry at once.
removeEntityAtOnce(this, entity) ==
  [this EXCEPT !.entities = MapDelete(@, entity),
               !.entitiesToDestroy = Append(@, entity)]

\* removeEntity: push on entitiesToDestroy.
removeEntity(this, entity) ==
  [this EXCEPT !.entitiesToDestroy = Append(@, entity)]

\* A mutant of addComponent: a component of a type the entity already holds
\* is dropped.
addComponentKeepsFirst(this, entity, component) ==
  IF getComponentsThrows(this, entity)
  THEN this
  ELSE updateEntitySystems(
         [this EXCEPT !.entities[entity] =
           IF component.type \in DOMAIN @ THEN @ ELSE MapSet(@, component.type, component)],
         entity)

\* A mutant of addComponent: the membership sets are left as they were.
addComponentNoRecompute(this, entity, component) ==
  IF getComponentsThrows(this, entity)
  THEN this
  ELSE [this EXCEPT !.entities[entity] = MapSet(@, component.type, component)]

\* A mutant of addComponent: an unregistered entity is registered on the way.
addComponentCreates(this, entity, component) ==
  LET that == IF getComponentsThrows(this, entity)
              THEN [this EXCEPT !.entities = MapSet(@, entity, EmptyMap)]
              ELSE this
  IN updateEntitySystems(
       [that EXCEPT !.entities[entity] = MapSet(@, component.type, component)],
       entity)

\* addComponent: the state is unchanged when getComponents throws.
addComponent(this, entity, component) ==
  IF getComponentsThrows(this, entity)
  THEN this
  ELSE updateEntitySystems(
         [this EXCEPT !.entities[entity] = MapSet(@, component.type, component)],
         entity)

\* A mutant of removeComponent: the membership sets are left as they were.
removeComponentNoRecompute(this, entity, component) ==
  IF getComponentsThrows(this, entity)
  THEN this
  ELSE [this EXCEPT !.entities[entity] = MapDelete(@, component.type)]

\* removeComponent: the state is unchanged when getComponents throws.
removeComponent(this, entity, component) ==
  IF getComponentsThrows(this, entity)
  THEN this
  ELSE updateEntitySystems(
         [this EXCEPT !.entities[entity] = MapDelete(@, component.type)],
         entity)

\* A mutant of getComponent: the look-up, under a key that is no component
\* type, finds nothing.
getComponentOutcomeWrongKey(this, entity, componentType) ==
  IF getComponentsThrows(this, entity) THEN "UnknownEntity" ELSE "MissingComponent"

\* getComponent: the error it throws, or "ok".
getComponentOutcome(this, entity, componentType) ==
  IF getComponentsThrows(this, entity)
  THEN "UnknownEntity"
  ELSE IF componentType \notin DOMAIN getComponents(this, entity)
       THEN "MissingComponent"
       ELSE "ok"

\* getComponent: component.data, when it returns.
getComponent(this, entity, componentType) ==
  getComponents(this, entity)[componentType].data

\* The loop of addSystem over this.entities.keys(), which are in insertion
\* order, that is in increasing order of identifier.
RECURSIVE updateAllEntities(_, _)
updateAllEntities(this, keys) ==
  IF keys = {}
  THEN this
  ELSE LET entity == CHOOSE e \in keys : \A o \in keys : e <= o
       IN updateAllEntities(updateEntitySystems(this, entity), keys \ {entity})

\* A mutant of this.systems.set: a registered key moves to the end.
systemsSetMovesLast(this, system) ==
  [this EXCEPT !.systems =
    Append(SelectSeq(@, LAMBDA entry : entry.system # system),
           [system |-> system, entities |-> {}])]

\* this.systems.set(system, new Set()): a registered key keeps its place.
systemsSet(this, system) ==
  IF IsRegistered(this, system)
  THEN [this EXCEPT !.systems =
         [i \in 1 .. Len(@) |->
           IF @[i].system = system THEN [system |-> system, entities |-> {}] ELSE @[i]]]
  ELSE [this EXCEPT !.systems = Append(@, [system |-> system, entities |-> {}])]

\* A mutant of addSystem: the entities are not scanned.
addSystemNoScan(this, system) == systemsSet(this, system)

addSystem(this, system) ==
  updateAllEntities(systemsSet(this, system), DOMAIN this.entities)

\* A mutant of removeSystem: the last entry is deleted, whichever the system.
removeSystemPops(this, system) ==
  [this EXCEPT !.systems =
    IF IsRegistered(this, system) THEN SubSeq(@, 1, Len(@) - 1) ELSE @]

\* removeSystem: this.systems.delete(system)
removeSystem(this, system) ==
  [this EXCEPT !.systems = SelectSeq(@, LAMBDA entry : entry.system # system)]

\* A mutant of destroyEntity: the membership sets keep the entity.
destroyEntityKeepsMembers(this, entity) ==
  [this EXCEPT !.entities = MapDelete(@, entity)]

\* destroyEntity
destroyEntity(this, entity) ==
  [this EXCEPT !.entities = MapDelete(@, entity),
               !.systems = [i \in 1 .. Len(@) |->
                             [@[i] EXCEPT !.entities = @ \ {entity}]]]

\* A mutant of the second loop of update: it stops one entry short.
RECURSIVE destroyAllButLast(_, _)
destroyAllButLast(this, queue) ==
  IF Len(queue) <= 1
  THEN this
  ELSE destroyAllButLast(destroyEntity(this, Head(queue)), Tail(queue))

\* The second loop of update, over entitiesToDestroy, and the reset of the array.
RECURSIVE destroyAll(_, _)
destroyAll(this, queue) ==
  IF queue = <<>>
  THEN this
  ELSE destroyAll(destroyEntity(this, Head(queue)), Tail(queue))

flush(this) ==
  [destroyAll(this, this.entitiesToDestroy) EXCEPT !.entitiesToDestroy = <<>>]

\* A mutant of the first three lines of update: start is left as it was.
updateTimeKeepsStart(this, now) ==
  [this EXCEPT !.delta = now - this.start]

\* The first three lines of update.
updateTime(this, now) ==
  [this EXCEPT !.delta = now - this.start, !.start = now]

(***************************************************************************)
(* The state after construction.                                           *)
(***************************************************************************)

\* What lastOp records of a call: the method, its outcome ("ok" or the error
\* thrown), what getComponent returned and, for an update() that has ended,
\* the systems it invoked and the registered entities they asked to remove.
Call(op, res) ==
  [op |-> op, res |-> res, data |-> NoData, invoked |-> <<>>, queued |-> {}]

\* new ECS()
NewECS(now) ==
  [systems |-> <<>>, entities |-> EmptyMap, start |-> now, delta |-> 0,
   entitiesToDestroy |-> <<>>]

Init ==
  /\ clock = 0
  /\ ecs = NewECS(0)
  /\ once = NewECS(0)
  /\ nextEntityID = 0
  /\ pc = "idle"
  /\ cur = NoSystem
  /\ pos = 0
  /\ stack = <<>>
  /\ invoked = <<>>
  /\ passQueued = {}
  /\ passMutated = {}
  /\ passReadded = FALSE
  /\ passNested = FALSE
  /\ lastOp = Call("new", "ok")
  /\ returned = {}
  /\ updatedAt = 0

(***************************************************************************)
(* The public methods, called by the driver (pc = "idle") or by the        *)
(* running system (pc = "running").                                        *)
(***************************************************************************)

AddEntity ==
  /\ nextEntityID < MaxEntityID
  /\ ecs' = addEntity(ecs, nextEntityID)
  /\ once' = addEntity(once, nextEntityID)
  /\ nextEntityID' = nextEntityID + 1
  /\ UNCHANGED <<clock, pc, cur, pos, stack>>

\* In `once`, a removeEntity(e) repeated before the flush is left out.
RemoveEntity(entity) ==
  /\ Len(ecs.entitiesToDestroy) < MaxQueue
  /\ ecs' = removeEntity(ecs, entity)
  /\ once' = IF entity \in Range(once.entitiesToDestroy)
             THEN once
             ELSE removeEntity(once, entity)
  /\ UNCHANGED <<nextEntityID, clock, pc, cur, pos, stack>>

AddComponent(entity, component) ==
  /\ ecs' = addComponent(ecs, entity, component)
  /\ once' = addComponent(once, entity, component)
  /\ UNCHANGED <<nextEntityID, clock, pc, cur, pos, stack>>

RemoveComponent(entity, component) ==
  /\ ecs' = removeComponent(ecs, entity, component)
  /\ once' = removeComponent(once, entity, component)
  /\ UNCHANGED <<nextEntityID, clock, pc, cur, pos, stack>>

GetComponents(entity) ==
  UNCHANGED <<ecs, once, nextEntityID, clock, pc, cur, pos, stack>>

GetComponent(entity, componentType) ==
  UNCHANGED <<ecs, once, nextEntityID, clock, pc, cur, pos, stack>>

AddSystem(system) ==
  /\ ecs' = addSystem(ecs, system)
  /\ once' = addSystem(once, system)
  /\ UNCHANGED <<nextEntityID, clock, pc, cur, pos, stack>>

\* The place of a registered system among the entries of this.systems.
IndexOf(this, system) ==
  CHOOSE i \in 1 .. Len(this.systems) : this.systems[i].system = system

\* A mutant of the iteration: a place counted in an array, which a deletion
\* does not move.
posAfterDeleteFixed(this, system, p) == p

\* The iterator of update() after this.systems.delete(system): an entry deleted
\* at or before the iterator's place moves the later entries one place down.
posAfterDelete(this, system, p) ==
  IF IsRegistered(this, system) /\ IndexOf(this, system) <= p THEN p - 1 ELSE p

RemoveSystem(system) ==
  /\ ecs' = removeSystem(ecs, system)
  /\ once' = removeSystem(once, system)
  /\ pos' = IF pc = "running" THEN posAfterDelete(ecs, system, pos) ELSE pos
  /\ stack' = [i \in 1 .. Len(stack) |->
                [stack[i] EXCEPT !.pos = posAfterDelete(ecs, system, @)]]
  /\ UNCHANGED <<nextEntityID, clock, pc, cur>>

(***************************************************************************)
(* update()                                                                *)
(***************************************************************************)

\* system.update(entities, this) for the entry after the iterator's place.
invokeNext(this, p) ==
  /\ pc' = "running"
  /\ pos' = p + 1
  /\ cur' = this.systems[p + 1].system

\* The set handed to the system just invoked: the entry's own Set object.
entitiesHanded == ecs.systems[pos].entities

\* The update() calls in progress: the running one and those that wait.
Depth == IF pc = "idle" THEN 0 ELSE Len(stack) + 1

\* update() with no system registered, called by the driver or by a system
\* that has removed every system: the clock is read and the queue flushed.
UpdateEmpty ==
  /\ ecs.systems = <<>>
  /\ ecs' = flush(updateTime(ecs, clock))
  /\ once' = flush(updateTime(once, clock))
  /\ UNCHANGED <<nextEntityID, clock, pc, cur, pos, stack>>

\* update() up to the call of the first system's update.  Called by a running
\* system, it leaves the iterator of the running update() on the stack.
UpdateBegin ==
  /\ Depth < MaxDepth
  /\ ecs.systems # <<>>
  /\ ecs' = updateTime(ecs, clock)
  /\ once' = updateTime(once, clock)
  /\ stack' = IF pc = "running" THEN Append(stack, [cur |-> cur, pos |-> pos]) ELSE stack
  /\ invokeNext(ecs, 0)
  /\ UNCHANGED <<nextEntityID, clock>>

\* The running system returns and the iterator has a next entry.
SystemReturnNext ==
  /\ pc = "running"
  /\ pos < Len(ecs.systems)
  /\ invokeNext(ecs, pos)
  /\ UNCHANGED <<ecs, once, nextEntityID, clock, stack>>

\* update() returns or throws: to the driver, or to the system that called it,
\* whose update() goes on from where its iterator was.
returnToCaller ==
  IF stack = <<>>
  THEN /\ pc' = "idle"
       /\ cur' = NoSystem
       /\ pos' = 0
       /\ stack' = stack
  ELSE /\ pc' = "running"
       /\ cur' = stack[Len(stack)].cur
       /\ pos' = stack[Len(stack)].pos
       /\ stack' = SubSeq(stack, 1, Len(stack) - 1)

\* The running system returns and the iterator is at its end: the flush.
SystemReturnLast ==
  /\ pc = "running"
  /\ pos >= Len(ecs.systems)
  /\ ecs' = flush(ecs)
  /\ once' = flush(once)
  /\ returnToCaller
  /\ UNCHANGED <<nextEntityID, clock>>

\* A mutant of update(): the flush is in a finally block.
SystemThrowFlushes ==
  /\ pc = "running"
  /\ ecs' = flush(ecs)
  /\ once' = flush(once)
  /\ returnToCaller
  /\ UNCHANGED <<nextEntityID, clock>>

\* The running system's update throws: update() ends there.  A system that
\* called this update() may catch the error and go on, or throw in its turn.
SystemThrow ==
  /\ pc = "running"
  /\ returnToCaller
  /\ UNCHANGED <<ecs, once, nextEntityID, clock>>

\* Time passes.  Spec and SpecCalls hold the clock still: the registry, the
\* component stores, the membership sets and the destroy queue do not read it.
Tick ==
  /\ clock < MaxClock
  /\ clock' = clock + 1
  /\ UNCHANGED <<ecs, once, nextEntityID, pc, cur, pos, stack>>

\* The update() calls in progress after the step.
DepthAfter == IF pc' = "idle" THEN 0 ELSE Len(stack') + 1

\* The step is the start of an update() call, which reads the clock: a pass
\* begins, or update() finds no system and returns in the same step.
UpdateStarts ==
  /\ clock' = clock
  /\ \/ DepthAfter > Depth
     \/ lastOp'.op = "update" /\ DepthAfter = Depth

\* The history common to the specifications: the identifier a call of
\* addEntity() returned, and the clock a call of update() read.
History ==
  /\ returned' = IF nextEntityID' # nextEntityID
                 THEN returned \cup {nextEntityID}
                 ELSE returned
  /\ updatedAt' = IF UpdateStarts THEN clock ELSE updatedAt

(***************************************************************************)
(* Spec: the steps with the history of the running update().               *)
(***************************************************************************)

\* A call of a public method other than update(): lastOp tells it from the
\* steps of update() only.
PassLog(queued, mutated, readded) ==
  /\ passQueued' = queued
  /\ passMutated' = mutated
  /\ passReadded' = readded
  /\ lastOp' = Call("call", "ok")
  /\ History
  /\ UNCHANGED <<invoked, passNested>>

PassSame == PassLog(passQueued, passMutated, passReadded)

\* The entity, if a system names it in a call that does not throw.
ByRunningSystem(entity) ==
  IF pc = "running" /\ ~getComponentsThrows(ecs, entity) THEN {entity} ELSE {}

\* addSystem by a system, of a system this update() invoked and that is no
\* longer registered.
Readds(system) ==
  pc = "running" /\ ~IsRegistered(ecs, system) /\ system \in Range(invoked)

\* update() begins.  Called by a system, it is part of the update() the driver
\* called, whose history goes on.
PassBegin(system) ==
  /\ IF pc = "idle"
     THEN /\ invoked' = <<system>>
          /\ passQueued' = {}
          /\ passMutated' = {}
          /\ passReadded' = FALSE
          /\ passNested' = FALSE
     ELSE /\ Len(invoked) < MaxInvocations
          /\ invoked' = Append(invoked, system)
          /\ passNested' = TRUE
          /\ UNCHANGED <<passQueued, passMutated, passReadded>>
  /\ lastOp' = Call("invoke", "ok")
  /\ History

\* update() ends.  `outer` tells the update() the driver called from one a
\* system called.
PassEnd(res, outer) ==
  /\ IF outer
     THEN /\ invoked' = <<>>
          /\ passQueued' = {}
          /\ passMutated' = {}
          /\ passReadded' = FALSE
          /\ passNested' = FALSE
     ELSE /\ passNested' = TRUE
          /\ UNCHANGED <<invoked, passQueued, passMutated, passReadded>>
  /\ lastOp' = [Call("update", res) EXCEPT !.invoked = invoked, !.queued = passQueued]
  /\ History

Next ==
  \/ AddEntity /\ PassSame
  \/ \E entity \in EntityIds :
       RemoveEntity(entity)
         /\ PassLog(passQueued \cup ByRunningSystem(entity), passMutated, passReadded)
  \/ \E entity \in EntityIds, component \in ComponentOfEachType :
       AddComponent(entity, component)
         /\ PassLog(passQueued, passMutated \cup ByRunningSystem(entity), passReadded)
  \/ \E entity \in EntityIds, component \in ComponentOfEachType :
       RemoveComponent(entity, component)
         /\ PassLog(passQueued, passMutated \cup ByRunningSystem(entity), passReadded)
  \/ \E entity \in EntityIds : GetComponents(entity) /\ PassSame
  \/ \E entity \in EntityIds, componentType \in ComponentTypes :
       GetComponent(entity, componentType) /\ PassSame
  \/ \E system \in Systems :
       AddSystem(system)
         /\ PassLog(passQueued, passMutated, passReadded \/ Readds(system))
  \/ \E system \in Systems : RemoveSystem(system) /\ PassSame
  \/ UpdateEmpty /\ PassEnd("ok", pc = "idle")
  \/ UpdateBegin /\ PassBegin(ecs.systems[1].system)
  \/ /\ SystemReturnNext
     /\ Len(invoked) < MaxInvocations
     /\ invoked' = Append(invoked, ecs.systems[pos + 1].system)
     /\ lastOp' = Call("invoke", "ok")
     /\ History
     /\ UNCHANGED <<passQueued, passMutated, passReadded, passNested>>
  \/ SystemReturnLast /\ PassEnd("ok", stack = <<>>)
  \/ SystemThrow /\ PassEnd("error", stack = <<>>)

Spec == Init /\ [][Next]_vars

(***************************************************************************)
(* SpecCalls: the steps with the last call and its outcome.                *)
(***************************************************************************)

CallLog(call) ==
  /\ lastOp' = call
  /\ History
  /\ UNCHANGED <<invoked, passQueued, passMutated, passReadded, passNested>>

\* What addComponent, removeComponent and getComponents throw, or "ok".
getComponentsOutcome(this, entity) ==
  IF getComponentsThrows(this, entity) THEN "UnknownEntity" ELSE "ok"

\* The operations of the engine lastOp can name.
Ops == {"addEntity", "removeEntity", "addComponent", "removeComponent", "getComponents",
        "getComponent", "addSystem", "removeSystem", "update", "invoke"}

\* What lastOp keeps of a call: the call, if its operation is one of `kept`.
Kept(kept, call) == IF call.op \in kept THEN call ELSE Call("call", "ok")

\* The steps, with the components a caller may pass and the operations lastOp keeps.
NextWith(components, kept) ==
  \/ AddEntity /\ CallLog(Kept(kept, Call("addEntity", "ok")))
  \/ \E entity \in EntityIds : RemoveEntity(entity) /\ CallLog(Kept(kept, Call("removeEntity", "ok")))
  \/ \E entity \in EntityIds, component \in components :
       AddComponent(entity, component)
         /\ CallLog(Kept(kept, Call("addComponent", getComponentsOutcome(ecs, entity))))
  \/ \E entity \in EntityIds, component \in components :
       RemoveComponent(entity, component)
         /\ CallLog(Kept(kept, Call("removeComponent", getComponentsOutcome(ecs, entity))))
  \/ \E entity \in EntityIds :
       GetComponents(entity)
         /\ CallLog(Kept(kept, Call("getComponents", getComponentsOutcome(ecs, entity))))
  \/ \E entity \in EntityIds, componentType \in ComponentTypes :
       GetComponent(entity, componentType)
         /\ CallLog(Kept(kept, [Call("getComponent", getComponentOutcome(ecs, entity, componentType))
                      EXCEPT !.data =
                        IF getComponentOutcome(ecs, entity, componentType) = "ok"
                        THEN getComponent(ecs, entity, componentType)
                        ELSE NoData]))
  \/ \E system \in Systems : AddSystem(system) /\ CallLog(Kept(kept, Call("addSystem", "ok")))
  \/ \E system \in Systems : RemoveSystem(system) /\ CallLog(Kept(kept, Call("removeSystem", "ok")))
  \/ UpdateEmpty /\ CallLog(Kept(kept, Call("update", "ok")))
  \/ UpdateBegin /\ CallLog(Kept(kept, Call("invoke", "ok")))
  \/ SystemReturnNext /\ CallLog(Kept(kept, Call("invoke", "ok")))
  \/ SystemReturnLast /\ CallLog(Kept(kept, Call("update", "ok")))
  \/ SystemThrow /\ CallLog(Kept(kept, Call("update", "error")))

NextCalls == NextWith(Components, Ops)

SpecCalls == Init /\ [][NextCalls]_vars

(***************************************************************************)
(* SpecIds: the steps of SpecCalls and the addEntity() calls of another    *)
(* engine instance of the process.  ECS.nextEntityID is static, so the     *)
(* other instance draws its identifiers from the same counter; none of its *)
(* own fields is read or written by this instance.                         *)
(***************************************************************************)

\* other.addEntity(), for another instance `other` of class ECS.
OtherAddEntity ==
  /\ nextEntityID < MaxEntityID
  /\ nextEntityID' = nextEntityID + 1
  /\ UNCHANGED <<ecs, once, clock, pc, cur, pos, stack>>

\* lastOp keeps the calls of addEntity() apart from the other calls.
NextIds ==
  \/ NextWith(ComponentOfEachType, {"addEntity", "update", "invoke"})
  \/ OtherAddEntity /\ CallLog(Call("addEntity@other", "ok"))

SpecIds == Init /\ [][NextIds]_vars

(***************************************************************************)
(* SpecClock: the steps of SpecCalls and the passing of time.  lastOp      *)
(* stays the last call while the clock moves.                              *)
(***************************************************************************)

\* lastOp keeps the steps of update() apart from the other calls.
NextClock ==
  \/ NextWith(ComponentOfEachType, {"update", "invoke"})
  \/ /\ Tick
     /\ UNCHANGED <<invoked, passQueued, passMutated, passReadded, passNested, lastOp,
                    returned, updatedAt>>

SpecClock == Init /\ [][NextClock]_vars

(***************************************************************************)
(* The properties.                                                         *)
(***************************************************************************)

\* The registered entities, the component types stored for one of them, and
\* whether it has every component a system requires.
Registered == DOMAIN ecs.entities
TypesOf(this, entity) == DOMAIN this.entities[entity]
Satisfies(this, entity, system) == requiredComponents(system) \subseteq TypesOf(this, entity)

\* The entity's membership is what its components make it, in every registered system.
MembershipExact(this, entity) ==
  \A i \in 1 .. Len(this.systems) :
    entity \in this.systems[i].entities <=> Satisfies(this, entity, this.systems[i].system)

\* The entity is a member of no registered system.
InNoSystem(this, entity) ==
  \A i \in 1 .. Len(this.systems) : entity \notin this.systems[i].entities

\* C1: immediately after a completed addComponent, removeComponent or addSystem,
\* every registered entity is a member of every registered system exactly when
\* its component types include the system's required components.
C1_MembershipAfterMutation ==
  (lastOp.op \in {"addComponent", "removeComponent", "addSystem"} /\ lastOp.res = "ok")
    => \A entity \in Registered : MembershipExact(ecs, entity)

\* C2: an entity a system asked to remove during update() stays registered and
\* queryable for the rest of that call and is in the set handed to every later
\* system whose required components it has; after the call has returned
\* normally it is in neither the registry nor any membership set.
C2_DeferredDestruction ==
  /\ pc = "running" =>
       \A entity \in passQueued :
         /\ entity \in Registered
         /\ \A componentType \in TypesOf(ecs, entity) :
              getComponentOutcome(ecs, entity, componentType) = "ok"
  /\ lastOp.op = "invoke" =>
       \A entity \in passQueued : Satisfies(ecs, entity, cur) => entity \in entitiesHanded
  /\ (lastOp.op = "update" /\ lastOp.res = "ok") =>
       \A entity \in lastOp.queued : entity \notin Registered /\ InNoSystem(ecs, entity)

\* C3: in every state, also inside update() and after an update() that threw,
\* every member of a membership set is a registered entity.
C3_MembersAreRegistered ==
  \A i \in 1 .. Len(ecs.systems) : ecs.systems[i].entities \subseteq Registered

\* An update() has thrown, an entity has been destroyed before, and a
\* registered entity is a member of a system.
C3_Witness ==
  /\ lastOp.op = "update" /\ lastOp.res = "error"
  /\ Cardinality(Registered) < nextEntityID
  /\ \E i \in 1 .. Len(ecs.systems) : ecs.systems[i].entities # {}

\* What a later getComponent(entity, componentType) gives is the same in both engines.
SameLookup(this, that, entity, componentType) ==
  /\ getComponentOutcome(that, entity, componentType)
       = getComponentOutcome(this, entity, componentType)
  /\ getComponentOutcome(this, entity, componentType) = "ok" =>
       getComponent(that, entity, componentType) = getComponent(this, entity, componentType)

\* C4: addComponent, removeComponent, getComponent and getComponents on an
\* entity that is not registered throw UnknownEntity, and a call that throws it
\* leaves the registry, the component stores, the membership sets and the
\* destroy queue as they were.
C4_UnknownEntity ==
  /\ [](\A entity \in EntityIds \ Registered :
          /\ getComponentsOutcome(ecs, entity) = "UnknownEntity"
          /\ \A componentType \in ComponentTypes :
               getComponentOutcome(ecs, entity, componentType) = "UnknownEntity"
          /\ \A component \in Components :
               /\ addComponent(ecs, entity, component) = ecs
               /\ removeComponent(ecs, entity, component) = ecs)
  /\ [][lastOp'.res = "UnknownEntity" => ecs' = ecs]_vars

\* addComponent has thrown UnknownEntity for an entity that was destroyed,
\* while another entity is registered, a member of a system, and queued.
C4_Witness ==
  /\ lastOp.op = "addComponent" /\ lastOp.res = "UnknownEntity"
  /\ Cardinality(Registered) < nextEntityID
  /\ \E entity \in Registered :
       /\ entity \in Range(ecs.entitiesToDestroy)
       /\ ~InNoSystem(ecs, entity)

\* C5: getComponent on a registered entity throws MissingComponent exactly when
\* the entity's store holds no component of the type, returns otherwise, and
\* changes nothing.
C5_MissingComponent ==
  /\ [](\A entity \in Registered, componentType \in ComponentTypes :
          getComponentOutcome(ecs, entity, componentType)
            = IF componentType \in TypesOf(ecs, entity) THEN "ok" ELSE "MissingComponent")
  /\ [][lastOp'.op = "getComponent" =>
          UNCHANGED <<ecs, nextEntityID, pc, cur, pos, stack>>]_vars

\* getComponent has thrown MissingComponent while an entity holds one of the
\* two component types and not the other.
C5_Witness ==
  /\ lastOp.op = "getComponent" /\ lastOp.res = "MissingComponent"
  /\ \E entity \in Registered : TypesOf(ecs, entity) \notin {{}, ComponentTypes}

\* C6: after addComponent(e, c), getComponent(e, c.type) returns c.data, the
\* components of other types and of other entities are as before, and what
\* getComponent(e, t) returns changes only by an addComponent or removeComponent
\* of type t on e or by the destruction of e.
C6_AddGetRoundTrip ==
  /\ [](\A entity \in Registered, component \in Components :
          LET after == addComponent(ecs, entity, component)
          IN /\ getComponentOutcome(after, entity, component.type) = "ok"
             /\ getComponent(after, entity, component.type) = component.data
             /\ DOMAIN after.entities = Registered
             /\ \A other \in Registered, componentType \in ComponentTypes :
                  (other # entity \/ componentType # component.type) =>
                    SameLookup(ecs, after, other, componentType))
  /\ [][\A entity \in Registered, componentType \in ComponentTypes :
          (/\ getComponentOutcome(ecs, entity, componentType) = "ok"
           /\ ~SameLookup(ecs, ecs', entity, componentType))
          => \/ /\ lastOp'.op = "addComponent"
                /\ \E component \in Components :
                     /\ component.type = componentType
                     /\ ecs' = addComponent(ecs, entity, component)
             \/ /\ lastOp'.op = "removeComponent"
                /\ \E component \in Components :
                     /\ component.type = componentType
                     /\ ecs' = removeComponent(ecs, entity, component)
             \/ /\ lastOp'.op = "update"
                /\ entity \in Range(ecs.entitiesToDestroy)
                /\ entity \notin DOMAIN ecs'.entities]_vars

\* getComponent has returned the payload 2 of a component of type 0, while the
\* other entity holds payload 1 under the same type.
C6_Witness ==
  /\ lastOp.op = "getComponent" /\ lastOp.res = "ok" /\ lastOp.data = 2
  /\ \E entity \in Registered :
       /\ getComponentOutcome(ecs, entity, 0) = "ok"
       /\ getComponent(ecs, entity, 0) = 1

\* C7: the engine in which removeEntity(e) was repeated before the flush and the
\* engine in which it was called once have the same registry, component stores
\* and membership sets, the same entities marked, and give the same outcome to
\* every getComponent and getComponents.
C7_RemoveEntityIdempotent ==
  /\ ecs.entities = once.entities
  /\ ecs.systems = once.systems
  /\ Range(ecs.entitiesToDestroy) = Range(once.entitiesToDestroy)
  /\ \A entity \in EntityIds :
       /\ getComponentsOutcome(ecs, entity) = getComponentsOutcome(once, entity)
       /\ \A componentType \in ComponentTypes :
            SameLookup(once, ecs, entity, componentType)

\* removeEntity has been repeated on a registered entity that is a member of a
\* system, and no flush has come yet.
C7_Witness ==
  /\ lastOp.op = "removeEntity"
  /\ Len(once.entitiesToDestroy) < Len(ecs.entitiesToDestroy)
  /\ \E entity \in Registered :
       /\ entity \in Range(ecs.entitiesToDestroy)
       /\ ~InNoSystem(ecs, entity)

\* The systems of a sequence that are registered, in the order of the sequence.
RegisteredOf(seq) == SelectSeq(seq, LAMBDA system : IsRegistered(ecs, system))

\* The step ends an update() call normally.
Completes == lastOp'.op = "update" /\ lastOp'.res = "ok"

\* C8 as stated: an update() the driver called and that has completed invoked
\* every registered system exactly once, in the order of registration.
C8_EverySystemOnce ==
  (lastOp.op = "update" /\ lastOp.res = "ok" /\ pc = "idle")
    => RegisteredOf(lastOp.invoked) = SystemKeys(ecs)

\* C8, amended: unless a system already invoked in the call was removed and
\* registered again during it, or a system called update() during it, an
\* update() that completes has invoked every registered system exactly once,
\* in the order of registration; each invocation is of the entry after the
\* iterator's place, with that entry's own set; and unless a system called
\* update(), no entity leaves the registry or the queue before the last system
\* has returned.
C8_Ordering ==
  /\ [][(Completes /\ pc' = "idle" /\ ~passReadded /\ ~passNested)
          => RegisteredOf(invoked) = SystemKeys(ecs')]_vars
  /\ [][lastOp'.op = "invoke" =>
          /\ pos' = (IF DepthAfter > Depth THEN 0 ELSE pos) + 1
          /\ ecs'.systems[pos'].system = cur'
          /\ invoked' = Append(invoked, cur')
          /\ ecs'.systems = ecs.systems]_vars
  /\ [][(pc' = "running" /\ ~passNested') =>
          /\ DOMAIN ecs.entities \subseteq DOMAIN ecs'.entities
          /\ Len(ecs.entitiesToDestroy) <= Len(ecs'.entitiesToDestroy)
          /\ SubSeq(ecs'.entitiesToDestroy, 1, Len(ecs.entitiesToDestroy))
               = ecs.entitiesToDestroy]_vars
  /\ [][(pc = "running" /\ Completes) => pos >= Len(ecs.systems)]_vars

\* An update() has completed after invoking both systems in the order of
\* registration, and has destroyed an entity a system asked to remove.
C8_Witness ==
  /\ lastOp.op = "update" /\ lastOp.res = "ok" /\ pc = "idle"
  /\ lastOp.invoked = <<"Both", "Any">>
  /\ SystemKeys(ecs) = <<"Both", "Any">>
  /\ lastOp.queued # {}

\* C9 as stated: an addComponent or removeComponent a running system may make
\* on an entity leaves the entity's membership recomputed in every registered
\* system, and a removeEntity it may make changes neither the registry nor a
\* membership set; every system invoked later in the same update() is handed
\* an entity a system mutated exactly when the entity has its required
\* components, and an entity a system passed to removeEntity stays registered
\* until the update() ends.
C9_MutationsImmediate ==
  /\ [](pc = "running" =>
          \A entity \in Registered, component \in Components :
            /\ MembershipExact(addComponent(ecs, entity, component), entity)
            /\ MembershipExact(removeComponent(ecs, entity, component), entity))
  /\ [](lastOp.op = "invoke" =>
          \A entity \in passMutated :
            /\ entity \in Registered
            /\ entity \in entitiesHanded <=> Satisfies(ecs, entity, cur))
  /\ [](pc = "running" =>
          \A entity \in EntityIds :
            /\ removeEntity(ecs, entity).entities = ecs.entities
            /\ removeEntity(ecs, entity).systems = ecs.systems)
  /\ [](pc = "running" => passQueued \subseteq Registered)

\* C9, amended: the same, where the entities a system mutated or passed to
\* removeEntity stay registered until the update() ends unless a system called
\* update() in it; a system invoked later is handed a mutated entity that is
\* still registered exactly when the entity has its required components.
C9_MutationsImmediateUnlessNested ==
  /\ [](pc = "running" =>
          \A entity \in Registered, component \in Components :
            /\ MembershipExact(addComponent(ecs, entity, component), entity)
            /\ MembershipExact(removeComponent(ecs, entity, component), entity))
  /\ [](lastOp.op = "invoke" =>
          \A entity \in passMutated :
            IF entity \in Registered
            THEN entity \in entitiesHanded <=> Satisfies(ecs, entity, cur)
            ELSE passNested /\ entity \notin entitiesHanded)
  /\ [](pc = "running" =>
          \A entity \in EntityIds :
            /\ removeEntity(ecs, entity).entities = ecs.entities
            /\ removeEntity(ecs, entity).systems = ecs.systems)
  /\ []((pc = "running" /\ ~passNested) => passQueued \subseteq Registered)

\* The second system is invoked with an entity that a system gave a component
\* to in this update(), and with an entity a system asked to remove.
C9_Witness ==
  /\ lastOp.op = "invoke" /\ ~passNested
  /\ Len(invoked) = 2
  /\ cur = "Both"
  /\ passMutated \cap entitiesHanded # {}
  /\ passQueued \cap entitiesHanded # {}
  /\ passMutated \ entitiesHanded # {}

\* The step ends with an error the update() the driver called.
Aborts == lastOp'.op = "update" /\ lastOp'.res = "error" /\ pc' = "idle"

\* C10 as stated: when a system's update throws, update() ends without invoking
\* a later system and without flushing; every registered entity a system had
\* passed to removeEntity in the call is registered and queued after it; the
\* queue only grows until an update() completes, and that update() removes
\* every queued entity from the registry and from every membership set and
\* empties the queue.
C10_UpdateFailure ==
  /\ [][(lastOp'.op = "update" /\ lastOp'.res = "error") =>
          /\ ecs' = ecs
          /\ DepthAfter = Depth - 1
          /\ lastOp'.invoked = invoked]_vars
  /\ [][Aborts =>
          \A entity \in passQueued :
            entity \in DOMAIN ecs'.entities /\ entity \in Range(ecs'.entitiesToDestroy)]_vars
  /\ [][~Completes =>
          /\ Len(ecs.entitiesToDestroy) <= Len(ecs'.entitiesToDestroy)
          /\ SubSeq(ecs'.entitiesToDestroy, 1, Len(ecs.entitiesToDestroy))
               = ecs.entitiesToDestroy
          /\ DOMAIN ecs.entities \cap Range(ecs.entitiesToDestroy)
               \subseteq DOMAIN ecs'.entities]_vars
  /\ [][Completes =>
          /\ ecs'.entitiesToDestroy = <<>>
          /\ \A entity \in Range(ecs.entitiesToDestroy) :
               entity \notin DOMAIN ecs'.entities /\ InNoSystem(ecs', entity)]_vars

\* C10, amended: the same, where the entities a system had passed to
\* removeEntity are registered and queued after the aborted update() unless a
\* system called update() in it.
C10_UpdateFailureUnlessNested ==
  /\ [][(lastOp'.op = "update" /\ lastOp'.res = "error") =>
          /\ ecs' = ecs
          /\ DepthAfter = Depth - 1
          /\ lastOp'.invoked = invoked]_vars
  /\ [][(Aborts /\ ~passNested) =>
          \A entity \in passQueued :
            entity \in DOMAIN ecs'.entities /\ entity \in Range(ecs'.entitiesToDestroy)]_vars
  /\ [][~Completes =>
          /\ Len(ecs.entitiesToDestroy) <= Len(ecs'.entitiesToDestroy)
          /\ SubSeq(ecs'.entitiesToDestroy, 1, Len(ecs.entitiesToDestroy))
               = ecs.entitiesToDestroy
          /\ DOMAIN ecs.entities \cap Range(ecs.entitiesToDestroy)
               \subseteq DOMAIN ecs'.entities]_vars
  /\ [][Completes =>
          /\ ecs'.entitiesToDestroy = <<>>
          /\ \A entity \in Range(ecs.entitiesToDestroy) :
               entity \notin DOMAIN ecs'.entities /\ InNoSystem(ecs', entity)]_vars

\* The first of two systems has thrown: the second was not invoked, and an
\* entity a system had asked to remove is still registered, a member and queued.
C10_Witness ==
  /\ lastOp.op = "update" /\ lastOp.res = "error" /\ pc = "idle"
  /\ Len(lastOp.invoked) = 1 /\ Len(ecs.systems) = 2
  /\ \E entity \in lastOp.queued :
       /\ entity \in Registered
       /\ ~InNoSystem(ecs, entity)
       /\ entity \in Range(ecs.entitiesToDestroy)

\* The registered entities that are marked for destruction.
Marked == Registered \cap Range(ecs.entitiesToDestroy)

\* C11: a removeEntity(e), inside or outside update(), appends e to the destroy
\* queue and changes nothing else of the engine; a marked entity stays
\* registered until an update() completes, and until then its components can
\* be read, added and removed.
C11_RemoveEntityOnlyMarks ==
  /\ [][lastOp'.op = "removeEntity" =>
          /\ \E entity \in EntityIds :
               ecs'.entitiesToDestroy = Append(ecs.entitiesToDestroy, entity)
          /\ ecs'.entities = ecs.entities
          /\ ecs'.systems = ecs.systems
          /\ ecs'.start = ecs.start /\ ecs'.delta = ecs.delta
          /\ UNCHANGED <<nextEntityID, pc, cur, pos, stack>>]_vars
  /\ [][\A entity \in Marked : entity \notin DOMAIN ecs'.entities => Completes]_vars
  /\ [](\A entity \in Marked :
          /\ getComponentsOutcome(ecs, entity) = "ok"
          /\ \A componentType \in ComponentTypes :
               getComponentOutcome(ecs, entity, componentType)
                 = IF componentType \in TypesOf(ecs, entity) THEN "ok" ELSE "MissingComponent"
          /\ \A component \in Components :
               /\ getComponentOutcome(addComponent(ecs, entity, component),
                                      entity, component.type) = "ok"
               /\ getComponent(addComponent(ecs, entity, component),
                               entity, component.type) = component.data
               /\ getComponentOutcome(removeComponent(ecs, entity, component),
                                      entity, component.type) = "MissingComponent")

\* A system has called removeEntity on a registered entity that holds a
\* component, is a member of a system and was marked already.
C11_Witness ==
  /\ lastOp.op = "removeEntity"
  /\ pc = "running"
  /\ \E entity \in Marked :
       /\ TypesOf(ecs, entity) # {}
       /\ ~InNoSystem(ecs, entity)
       /\ ecs.entitiesToDestroy = <<entity, entity>>

\* C12: removeComponent(e, c) on a registered entity that holds no component of
\* the type of c leaves the engine as it was; when e holds one, that component
\* alone leaves the component stores, the membership of e is recomputed, and
\* the membership of the other entities and the destroy queue are as before.
C12_RemoveComponentFrame ==
  \A entity \in Registered, component \in Components :
    LET after == removeComponent(ecs, entity, component)
    IN IF component.type \notin TypesOf(ecs, entity)
       THEN after = ecs
       ELSE /\ after.entities =
                 [ecs.entities EXCEPT ![entity] = MapDelete(@, component.type)]
            /\ MembershipExact(after, entity)
            /\ SystemKeys(after) = SystemKeys(ecs)
            /\ \A i \in 1 .. Len(ecs.systems) :
                 after.systems[i].entities \ {entity} = ecs.systems[i].entities \ {entity}
            /\ after.entitiesToDestroy = ecs.entitiesToDestroy

\* C13: every addEntity() returns an identifier greater than every identifier
\* returned before, by this instance or another, registers it with an empty
\* component store, leaves the other entries of the registry alone and does
\* not fail; every registered entity has an identifier addEntity() returned.
C13_FreshIdentifiers ==
  /\ [][lastOp'.op = "addEntity" =>
          /\ lastOp'.res = "ok"
          /\ \E entity \in EntityIds \ Registered :
               /\ \A earlier \in returned : entity > earlier
               /\ returned' = returned \cup {entity}
               /\ DOMAIN ecs'.entities = Registered \cup {entity}
               /\ ecs'.entities[entity] = EmptyMap
               /\ \A other \in Registered : ecs'.entities[other] = ecs.entities[other]]_vars
  /\ [](Registered \subseteq returned)

\* addEntity() has returned 1 to this instance, and 0 was returned before and
\* is not registered here: it was destroyed, or returned to the other instance.
C13_Witness ==
  /\ lastOp.op = "addEntity"
  /\ returned = {0, 1}
  /\ Registered = {1}

\* C14: removeSystem(s) leaves s unregistered and the other systems in their
\* order with their membership sets, changes nothing else of the engine, and
\* changes nothing at all when s is not registered; update() invokes only
\* systems that are registered when their turn comes.
C14_RemoveSystemFrame ==
  /\ [](\A system \in Systems :
          LET after == removeSystem(ecs, system)
          IN /\ ~IsRegistered(after, system)
             /\ SystemKeys(after) = SelectSeq(SystemKeys(ecs), LAMBDA key : key # system)
             /\ \A i \in 1 .. Len(after.systems) :
                  after.systems[i] = ecs.systems[IndexOf(ecs, after.systems[i].system)]
             /\ after.entities = ecs.entities
             /\ after.entitiesToDestroy = ecs.entitiesToDestroy
             /\ after.start = ecs.start /\ after.delta = ecs.delta
             /\ ~IsRegistered(ecs, system) => after = ecs)
  /\ [][lastOp'.op = "removeSystem" =>
          /\ lastOp'.res = "ok"
          /\ \E system \in Systems : ecs' = removeSystem(ecs, system)
          /\ UNCHANGED <<nextEntityID, pc, cur>>]_vars
  /\ [][lastOp'.op = "invoke" =>
          /\ IsRegistered(ecs, cur')
          /\ ecs'.systems = ecs.systems
          /\ ecs'.systems[pos'].system = cur']_vars

\* The first of two systems has removed itself while it runs, and the system
\* left, which has a member, is the next in turn.
C14_Witness ==
  /\ lastOp.op = "removeSystem"
  /\ pc = "running"
  /\ ~IsRegistered(ecs, cur)
  /\ Len(ecs.systems) = 1 /\ pos = 0
  /\ ecs.systems[1].entities # {}

\* C15 as stated: with a clock that does not go back, the start of every
\* update() sets delta to the clock minus the clock at the start of the
\* previous update(), or at construction, whether or not that update() was
\* aborted; the first system is invoked with that delta, which is not
\* negative, and delta stays as it is while the systems of the call run.
C15_FrameDelta ==
  /\ [][UpdateStarts =>
          /\ ecs'.delta = clock - updatedAt
          /\ ecs'.delta >= 0
          /\ updatedAt' = clock]_vars
  /\ [][pc = "running" => ecs'.delta = ecs.delta]_vars
  /\ [](updatedAt <= clock /\ ecs.delta >= 0)

\* C15, amended: the same, where delta changes at the start of an update() and
\* at no other step: it stays as it is while the systems of a call run unless
\* one of them calls update().
C15_FrameDeltaUnlessNested ==
  /\ [][UpdateStarts =>
          /\ ecs'.delta = clock - updatedAt
          /\ ecs'.delta >= 0
          /\ updatedAt' = clock]_vars
  /\ [][~UpdateStarts => ecs'.delta = ecs.delta /\ updatedAt' = updatedAt]_vars
  /\ [](updatedAt <= clock /\ ecs.delta >= 0)

\* A system runs in an update() that a system called at clock 1, in an
\* update() that had started at clock 0: it was handed delta 1.
C15_Witness ==
  /\ pc = "running" /\ stack # <<>>
  /\ lastOp.op = "invoke" /\ pos = 1
  /\ clock = 1 /\ updatedAt = 1
  /\ ecs.delta = 1
  /\ ecs.start = 1

\* C16: in every state, inside update() too, every member of the membership
\* set of a registered system is a registered entity that holds every component
\* type the system requires.
C16_MembershipSound ==
  \A i \in 1 .. Len(ecs.systems) :
    \A entity \in ecs.systems[i].entities :
      /\ entity \in Registered
      /\ Satisfies(ecs, entity, ecs.systems[i].system)

\* A system has called removeComponent; of two entities that hold a component,
\* one is a member of the system that requires both types and the other is not.
C16_Witness ==
  /\ lastOp.op = "removeComponent" /\ lastOp.res = "ok"
  /\ pc = "running"
  /\ \E i \in 1 .. Len(ecs.systems) :
       /\ ecs.systems[i].system = "Both"
       /\ ecs.systems[i].entities # {}
       /\ \E entity \in Registered \ ecs.systems[i].entities : TypesOf(ecs, entity) # {}

\* C17: in every state, every registered entity that holds every component type
\* required by a registered system with a non-empty required set is a member
\* of that system.
C17_MembershipComplete ==
  \A i \in 1 .. Len(ecs.systems) :
    requiredComponents(ecs.systems[i].system) # {} =>
      \A entity \in Registered :
        Satisfies(ecs, entity, ecs.systems[i].system) => entity \in ecs.systems[i].entities

\* The system that requires both types has been registered, alone, after two
\* entities got their components: one has both and is a member, the other is not.
C17_Witness ==
  /\ lastOp.op = "addSystem"
  /\ SystemKeys(ecs) = <<"Both">>
  /\ \E entity \in Registered :
       /\ TypesOf(ecs, entity) = ComponentTypes
       /\ ecs.systems[1].entities = {entity}
  /\ \E entity \in Registered : TypesOf(ecs, entity) \notin {{}, ComponentTypes}

\* C18: addEntity() leaves the systems with their membership sets, the
\* component stores of the other entities and the destroy queue as they were,
\* and the new entity is a member of no system; an entity that is a member of
\* no system becomes a member of one only by an addComponent or removeComponent
\* on it or by an addSystem.
C18_AddEntityNoRecompute ==
  /\ [][lastOp'.op = "addEntity" =>
          /\ ecs'.systems = ecs.systems
          /\ ecs'.entitiesToDestroy = ecs.entitiesToDestroy
          /\ ecs'.start = ecs.start /\ ecs'.delta = ecs.delta
          /\ \A other \in Registered :
               other \in DOMAIN ecs'.entities /\ ecs'.entities[other] = ecs.entities[other]
          /\ \A entity \in DOMAIN ecs'.entities \ Registered : InNoSystem(ecs', entity)
          /\ UNCHANGED <<pc, cur, pos, stack>>]_vars
  /\ [][\A entity \in EntityIds :
          (InNoSystem(ecs, entity) /\ ~InNoSystem(ecs', entity)) =>
            \/ lastOp'.op = "addSystem"
            \/ /\ lastOp'.op = "addComponent"
               /\ \E component \in Components : ecs' = addComponent(ecs, entity, component)
            \/ /\ lastOp'.op = "removeComponent"
               /\ \E component \in Components : ecs' = removeComponent(ecs, entity, component)]_vars

\* addEntity() has returned 1 while the system that requires nothing is
\* registered with entity 0 as its member: entity 1 is not a member.
C18_Witness ==
  /\ lastOp.op = "addEntity"
  /\ Registered = {0, 1}
  /\ \E i \in 1 .. Len(ecs.systems) :
       ecs.systems[i].system = "Any" /\ ecs.systems[i].entities = {0}

\* C19: addSystem(s) followed by addSystem(s) ends in the state addSystem(s)
\* ends in; a registered s keeps its place in the order of invocation, and so
\* does the iterator of a running update(); the membership set of s is the set
\* of registered entities that hold every required component type; the
\* registry, the component stores and the destroy queue are as before.
C19_AddSystemIdempotent ==
  /\ [](\A system \in Systems :
          LET first == addSystem(ecs, system)
              again == addSystem(first, system)
          IN /\ again = first
             /\ IsRegistered(ecs, system) => SystemKeys(first) = SystemKeys(ecs)
             /\ first.systems[IndexOf(first, system)].entities
                  = {entity \in Registered : Satisfies(ecs, entity, system)}
             /\ first.entities = ecs.entities
             /\ first.entitiesToDestroy = ecs.entitiesToDestroy)
  /\ [][lastOp'.op = "addSystem" =>
          /\ \E system \in Systems : ecs' = addSystem(ecs, system)
          /\ UNCHANGED <<nextEntityID, pc, cur, pos, stack>>]_vars

\* The second of two systems, while it runs, has called addSystem on a system
\* that was registered: the order is as before, and it has a member.
C19_Witness ==
  /\ lastOp.op = "addSystem"
  /\ pc = "running" /\ pos = 2 /\ cur = "Both"
  /\ SystemKeys(ecs) = <<"Any", "Both">>
  /\ ecs.systems[2].entities # {}

====
